---- MODULE Spec2Model ----
(***************************************************************************)
(* A model of de_env: the conversion of a flat sequence of (name, value)   *)
(* pairs into a typed record through serde's visitor protocol.             *)
(*                                                                         *)
(* Text is a sequence of one-character strings.  An OsString is such a     *)
(* sequence that may also hold InvalidByte, a unit that is not part of any *)
(* valid Unicode encoding.  Typed values and error payloads are sequences  *)
(* of strings in a canonical printed form, so that equality of terms is    *)
(* equality of values.                                                     *)
(***************************************************************************)
EXTENDS Integers, Sequences, FiniteSets, TLC

VARIABLES
    entry,          \* the entry point called
    env,            \* the pairs the caller or the process environment supplies
    prefix,         \* the prefix argument of from_env_prefixed
    desc,           \* the target type's descriptor (its Deserialize impl)
    truthy_falsy,   \* the cargo feature "truthy-falsy"
    pairs,          \* the pairs handed to the engine by the entry point
    iter,           \* MapDeserializer.iter: the pairs not yet pulled
    pending,        \* MapDeserializer.value: the value held between key and value pulls
    cur,            \* the visitor's resolved field for the held value
    slots,          \* the visitor's locals: one Option per declared field
    pulled,         \* MapDeserializer.count: pairs pulled so far
    calls,          \* the visitor methods invoked so far, in order
    pc,             \* position of the conversion
    result          \* what the entry point returns

vars == <<entry, env, prefix, desc, truthy_falsy, pairs, iter, pending, cur,
          slots, pulled, calls, pc, result>>

----------------------------------------------------------------------------
(* Bounds of the explored inputs *)

MaxPairs == 3
MaxTopPairs == 2
MaxEnv == 2

----------------------------------------------------------------------------
(* Text *)

InvalidByte == "0xFF"

\* OsStr::to_str / OsString::into_string succeed exactly on valid Unicode
is_unicode(os) == \A i \in 1..Len(os) : os[i] # InvalidByte

UpperCase == <<"A", "B", "C", "D", "E", "F", "G", "H", "I", "J", "K", "L", "M", "N", "O", "P", "Q", "R", "S", "T", "U", "V", "W", "X", "Y", "Z">>
LowerCase == <<"a", "b", "c", "d", "e", "f", "g", "h", "i", "j", "k", "l", "m", "n", "o", "p", "q", "r", "s", "t", "u", "v", "w", "x", "y", "z">>

char_to_lowercase(c) ==
    IF \E i \in 1..Len(UpperCase) : UpperCase[i] = c
    THEN LowerCase[CHOOSE i \in 1..Len(UpperCase) : UpperCase[i] = c]
    ELSE c

to_lowercase(s) == [i \in 1..Len(s) |-> char_to_lowercase(s[i])]

starts_with(s, p) == Len(p) <= Len(s) /\ SubSeq(s, 1, Len(p)) = p

\* str::strip_prefix: Some(rest) with the prefix removed once, or None
strip_prefix(s, p) ==
    IF starts_with(s, p)
    THEN [some |-> TRUE, rest |-> SubSeq(s, Len(p) + 1, Len(s))]
    ELSE [some |-> FALSE, rest |-> <<>>]

----------------------------------------------------------------------------
(* Results and errors.  vis lists the visitor methods the call invoked. *)

Ok(v, vis) == [tag |-> "Ok", val |-> v, kind |-> "", payload |-> <<>>, vis |-> vis]
Err(kind, payload, vis) ==
    [tag |-> "Err", val |-> <<>>, kind |-> kind, payload |-> payload, vis |-> vis]

unsupported_type(ty, vis) == Err("UnsupportedType", <<ty>>, vis)
invalid_unicode(os, vis) == Err("InvalidUnicode", os, vis)
invalid_bool(os, vis) == Err("InvalidBool", os, vis)
custom(msg, vis) == Err("Message", msg, vis)
from_ParseIntError(detail, vis) == Err("InvalidInteger", <<detail>>, vis)
from_ParseFloatError(detail, vis) == Err("InvalidFloat", <<detail>>, vis)

\* a visitor call in front of what the visitor did with it
AndThen(call, r) == [r EXCEPT !.vis = <<call>> \o r.vis]

----------------------------------------------------------------------------
(* The standard textual parse of the integer types (str::parse::<T>), on    *)
(* decimal digit sequences so that every width up to 128 bits is exact.    *)

Digits == <<"0", "1", "2", "3", "4", "5", "6", "7", "8", "9">>
is_digit(c) == \E i \in 1..10 : Digits[i] = c
digit_val(c) == (CHOOSE i \in 1..10 : Digits[i] = c) - 1

RECURSIVE strip_zeros(_)
strip_zeros(d) ==
    IF Len(d) > 1 /\ d[1] = "0" THEN strip_zeros(Tail(d)) ELSE d

RECURSIVE lex_greater(_, _)
lex_greater(x, y) ==
    IF x = <<>> THEN FALSE
    ELSE IF x[1] # y[1] THEN digit_val(x[1]) > digit_val(y[1])
    ELSE lex_greater(Tail(x), Tail(y))

\* x > y for digit sequences without leading zeros
mag_greater(x, y) ==
    \/ Len(x) > Len(y)
    \/ Len(x) = Len(y) /\ lex_greater(x, y)

IntTypes == {"u8", "u16", "u32", "u64", "u128", "i8", "i16", "i32", "i64", "i128"}
FloatTypes == {"f32", "f64"}
is_signed_ty(ty) == ty \in {"i8", "i16", "i32", "i64", "i128"}

\* T::MAX
int_max(ty) ==
    CASE ty = "u8" -> <<"2", "5", "5">>
      [] ty = "u16" -> <<"6", "5", "5", "3", "5">>
      [] ty = "u32" -> <<"4", "2", "9", "4", "9", "6", "7", "2", "9", "5">>
      [] ty = "u64" -> <<"1", "8", "4", "4", "6", "7", "4", "4", "0", "7", "3", "7", "0", "9", "5", "5", "1", "6", "1", "5">>
      [] ty = "u128" -> <<"3", "4", "0", "2", "8", "2", "3", "6", "6", "9", "2", "0", "9", "3", "8", "4", "6", "3", "4", "6", "3", "3", "7", "4", "6", "0", "7", "4", "3", "1", "7", "6", "8", "2", "1", "1", "4", "5", "5">>
      [] ty = "i8" -> <<"1", "2", "7">>
      [] ty = "i16" -> <<"3", "2", "7", "6", "7">>
      [] ty = "i32" -> <<"2", "1", "4", "7", "4", "8", "3", "6", "4", "7">>
      [] ty = "i64" -> <<"9", "2", "2", "3", "3", "7", "2", "0", "3", "6", "8", "5", "4", "7", "7", "5", "8", "0", "7">>
      [] ty = "i128" -> <<"1", "7", "0", "1", "4", "1", "1", "8", "3", "4", "6", "0", "4", "6", "9", "2", "3", "1", "7", "3", "1", "6", "8", "7", "3", "0", "3", "7", "1", "5", "8", "8", "4", "1", "0", "5", "7", "2", "7">>

\* the magnitude of T::MIN of the signed types
int_min_mag(ty) ==
    CASE ty = "i8" -> <<"1", "2", "8">>
      [] ty = "i16" -> <<"3", "2", "7", "6", "8">>
      [] ty = "i32" -> <<"2", "1", "4", "7", "4", "8", "3", "6", "4", "8">>
      [] ty = "i64" -> <<"9", "2", "2", "3", "3", "7", "2", "0", "3", "6", "8", "5", "4", "7", "7", "5", "8", "0", "8">>
      [] ty = "i128" -> <<"1", "7", "0", "1", "4", "1", "1", "8", "3", "4", "6", "0", "4", "6", "9", "2", "3", "1", "7", "3", "1", "6", "8", "7", "3", "0", "3", "7", "1", "5", "8", "8", "4", "1", "0", "5", "7", "2", "8">>

\* the digit loop: at each character first the digit test, then the
\* checked multiply-add against the limit
RECURSIVE accumulate(_, _, _, _)
accumulate(digits, acc, limit, overflow) ==
    IF digits = <<>> THEN [ok |-> TRUE, mag |-> acc, detail |-> ""]
    ELSE IF ~is_digit(digits[1]) THEN [ok |-> FALSE, mag |-> <<>>, detail |-> "InvalidDigit"]
    ELSE LET next == strip_zeros(Append(acc, digits[1]))
         IN IF mag_greater(next, limit)
            THEN [ok |-> FALSE, mag |-> <<>>, detail |-> overflow]
            ELSE accumulate(Tail(digits), next, limit, overflow)

\* <T as FromStr>::from_str for an integer type: [ok, val, detail]
parse_int(ty, src) ==
    IF src = <<>> THEN [ok |-> FALSE, val |-> <<>>, detail |-> "Empty"]
    ELSE IF src \in {<<"+">>, <<"-">>} THEN [ok |-> FALSE, val |-> <<>>, detail |-> "InvalidDigit"]
    ELSE LET negative == src[1] = "-" /\ is_signed_ty(ty)
             digits == IF src[1] = "+" \/ negative THEN Tail(src) ELSE src
             r == IF negative
                  THEN accumulate(digits, <<"0">>, int_min_mag(ty), "NegOverflow")
                  ELSE accumulate(digits, <<"0">>, int_max(ty), "PosOverflow")
         IN IF ~r.ok THEN [ok |-> FALSE, val |-> <<>>, detail |-> r.detail]
            ELSE [ok |-> TRUE,
                  val |-> IF negative /\ r.mag # <<"0">> THEN <<"-">> \o r.mag ELSE r.mag,
                  detail |-> ""]

----------------------------------------------------------------------------
(* The standard textual parse of f32 and f64.  A finite value is kept as   *)
(* its exact decimal: sign, significant digits, power of ten.  That is a   *)
(* faithful image of the float while the inputs have few significant       *)
(* digits and small exponents, which the explored values do.               *)

RECURSIVE take_digits(_)
take_digits(s) ==
    IF s # <<>> /\ is_digit(s[1]) THEN <<s[1]>> \o take_digits(Tail(s)) ELSE <<>>

RECURSIVE strip_trailing_zeros(_)
strip_trailing_zeros(d) ==
    IF Len(d) > 1 /\ d[Len(d)] = "0"
    THEN strip_trailing_zeros(SubSeq(d, 1, Len(d) - 1))
    ELSE d

RECURSIVE to_int(_)
to_int(d) == IF d = <<>> THEN 0 ELSE 10 * to_int(SubSeq(d, 1, Len(d) - 1)) + digit_val(d[Len(d)])

float_val(negative, int_part, frac_part, exp) ==
    LET all == strip_zeros(int_part \o frac_part)
        mant == strip_trailing_zeros(all)
        e == IF mant = <<"0">> THEN 0 ELSE exp - Len(frac_part) + (Len(all) - Len(mant))
    IN (IF negative THEN <<"-">> ELSE <<>>) \o mant \o <<"e", ToString(e)>>

\* s without its prefix d
after(s, d) == SubSeq(s, Len(d) + 1, Len(s))

NotNumber == [ok |-> FALSE, int_part |-> <<>>, frac_part |-> <<>>, exp |-> 0]

\* what follows the 'e': an optional sign and at least one digit, to the end
parse_scientific(s) ==
    LET t == IF s # <<>> /\ s[1] \in {"+", "-"} THEN Tail(s) ELSE s
    IN IF t = <<>> \/ take_digits(t) # t THEN [ok |-> FALSE, exp |-> 0]
       ELSE [ok |-> TRUE, exp |-> IF s[1] = "-" THEN 0 - to_int(t) ELSE to_int(t)]

\* the mantissa needs a digit; after it comes the end or an exponent
parse_exponent(int_part, frac_part, s) ==
    IF Len(int_part) + Len(frac_part) = 0 THEN NotNumber
    ELSE IF s = <<>>
    THEN [ok |-> TRUE, int_part |-> int_part, frac_part |-> frac_part, exp |-> 0]
    ELSE IF s[1] \in {"e", "E"} /\ parse_scientific(Tail(s)).ok
    THEN [ok |-> TRUE, int_part |-> int_part, frac_part |-> frac_part,
          exp |-> parse_scientific(Tail(s)).exp]
    ELSE NotNumber

parse_fraction(int_part, s) ==
    IF s # <<>> /\ s[1] = "."
    THEN parse_exponent(int_part, take_digits(Tail(s)), after(Tail(s), take_digits(Tail(s))))
    ELSE parse_exponent(int_part, <<>>, s)

\* digits, an optional point and digits, an optional exponent, and nothing else
parse_number(s) == parse_fraction(take_digits(s), after(s, take_digits(s)))

\* "inf", "infinity" and "nan" in any casing
parse_inf_nan(s, negative) ==
    IF to_lowercase(s) \in {<<"i", "n", "f">>, <<"i", "n", "f", "i", "n", "i", "t", "y">>}
    THEN [ok |-> TRUE, val |-> (IF negative THEN <<"-">> ELSE <<>>) \o <<"inf">>, detail |-> ""]
    ELSE IF to_lowercase(s) = <<"n", "a", "n">>
    THEN [ok |-> TRUE, val |-> <<"NaN">>, detail |-> ""]
    ELSE [ok |-> FALSE, val |-> <<>>, detail |-> "Invalid"]

dec2flt(s, negative) ==
    IF s = <<>> THEN [ok |-> FALSE, val |-> <<>>, detail |-> "Invalid"]
    ELSE IF parse_number(s).ok
    THEN [ok |-> TRUE,
          val |-> float_val(negative, parse_number(s).int_part,
                            parse_number(s).frac_part, parse_number(s).exp),
          detail |-> ""]
    ELSE parse_inf_nan(s, negative)

\* <T as FromStr>::from_str for a float type: [ok, val, detail]
parse_float(ty, src) ==
    IF src = <<>> THEN [ok |-> FALSE, val |-> <<>>, detail |-> "Empty"]
    ELSE dec2flt(IF src[1] \in {"+", "-"} THEN Tail(src) ELSE src, src[1] = "-")

----------------------------------------------------------------------------
(* The Value adapter (de/value.rs) and the descriptors that pull from it.  *)
(* A type is a sequence of strings: <<"u8">>, <<"Option", "u8">>,          *)
(* <<"NewType", "String">>.  A typed value is printed the same way.        *)

\* the enum of the crate's tests: unit variants ON and OFF, a newtype
\* variant and a struct variant
UnitVariants == {<<"O", "N">>, <<"O", "F", "F">>}
DataVariant(name) ==
    CASE name = <<"N", "E", "W", "_", "T", "Y", "P", "E", "_", "V", "A", "R", "I", "A", "N", "T">> -> "newtype variant"
      [] name = <<"S", "T", "R", "U", "C", "T", "_", "V", "A", "R", "I", "A", "N", "T">> -> "struct variant"
      [] OTHER -> ""

\* String::into_deserializer().deserialize_any: the visitor is given the text
\* as an owned string
string_visit(ty, text) ==
    CASE ty = "String" -> Ok(<<"String">> \o text, <<"visit_string">>)
      [] ty = "any" -> Ok(<<"String">> \o text, <<"visit_string">>)
      [] ty = "IgnoredAny" -> Ok(<<"IgnoredAny">>, <<"visit_string">>)
      [] ty = "char" ->
            IF Len(text) = 1
            THEN Ok(<<"char">> \o text, <<"visit_string">>)
            ELSE custom(<<"invalid value: string, expected a character">>, <<"visit_string">>)

\* a variant that decodes lossily instead of failing
Value_deserialize_any_lossy(ty, os) == string_visit(ty, os)

\* Value::deserialize_any, to which char, str, string and ignored_any forward
Value_deserialize_any(ty, os) ==
    IF ~is_unicode(os) THEN invalid_unicode(os, <<>>)
    ELSE string_visit(ty, os)

\* a variant whose truthy arm lacks "on"
Truthy_without_on == IF truthy_falsy THEN {<<"t", "r", "u", "e">>, <<"t">>, <<"y", "e", "s">>, <<"y">>, <<"1">>} ELSE {<<"t", "r", "u", "e">>}

\* the tokens of the two match arms, under the feature and without it
Truthy == IF truthy_falsy THEN {<<"t", "r", "u", "e">>, <<"t">>, <<"y", "e", "s">>, <<"y">>, <<"o", "n">>, <<"1">>} ELSE {<<"t", "r", "u", "e">>}
Falsy == IF truthy_falsy THEN {<<"f", "a", "l", "s", "e">>, <<"f">>, <<"n", "o">>, <<"n">>, <<"o", "f", "f">>, <<"0">>} ELSE {<<"f", "a", "l", "s", "e">>}

Value_deserialize_bool(os) ==
    LET lowercase_input ==
            IF is_unicode(os) THEN [some |-> TRUE, text |-> to_lowercase(os)]
            ELSE [some |-> FALSE, text |-> <<>>]
    IN IF lowercase_input.some /\ lowercase_input.text \in Truthy
       THEN Ok(<<"bool", "true">>, <<"visit_bool">>)
       ELSE IF lowercase_input.some /\ lowercase_input.text \in Falsy
       THEN Ok(<<"bool", "false">>, <<"visit_bool">>)
       ELSE invalid_bool(os, <<>>)

\* a variant that trims the text before parsing it
RECURSIVE trimmed(_)
trimmed(s) ==
    IF s # <<>> /\ s[1] = " " THEN trimmed(Tail(s))
    ELSE IF s # <<>> /\ s[Len(s)] = " " THEN trimmed(SubSeq(s, 1, Len(s) - 1))
    ELSE s
convert_into_string_and_parse_trimming(ty, os) ==
    IF ~is_unicode(os) THEN invalid_unicode(os, <<>>)
    ELSE IF ty \in IntTypes
    THEN LET p == parse_int(ty, trimmed(os))
         IN IF p.ok THEN Ok(<<ty>> \o p.val, <<"visit_" \o ty>>)
            ELSE from_ParseIntError(p.detail, <<>>)
    ELSE LET p == parse_float(ty, trimmed(os))
         IN IF p.ok THEN Ok(<<ty>> \o p.val, <<"visit_" \o ty>>)
            ELSE from_ParseFloatError(p.detail, <<>>)

\* the functions the macro generates for u8 .. i128, f32, f64
convert_into_string_and_parse(ty, os) ==
    IF ~is_unicode(os) THEN invalid_unicode(os, <<>>)
    ELSE IF ty \in IntTypes
    THEN LET p == parse_int(ty, os)
         IN IF p.ok THEN Ok(<<ty>> \o p.val, <<"visit_" \o ty>>)
            ELSE from_ParseIntError(p.detail, <<>>)
    ELSE LET p == parse_float(ty, os)
         IN IF p.ok THEN Ok(<<ty>> \o p.val, <<"visit_" \o ty>>)
            ELSE from_ParseFloatError(p.detail, <<>>)

\* a variant that folds the case of the text before matching the names
Value_deserialize_enum_folding(os) ==
    IF ~is_unicode(os) THEN invalid_unicode(os, <<>>)
    ELSE IF \E v \in UnitVariants : to_lowercase(v) = to_lowercase(os)
    THEN Ok(<<"variant">> \o (CHOOSE v \in UnitVariants : to_lowercase(v) = to_lowercase(os)),
            <<"visit_enum">>)
    ELSE IF DataVariant(os) # ""
    THEN custom(<<"invalid type: unit variant, expected " \o DataVariant(os)>>, <<"visit_enum">>)
    ELSE custom(<<"unknown variant">> \o os, <<"visit_enum">>)

\* String::into_deserializer().deserialize_enum: the text names the variant,
\* and the variant access that comes with it is unit-only
Value_deserialize_enum(os) ==
    IF ~is_unicode(os) THEN invalid_unicode(os, <<>>)
    ELSE IF os \in UnitVariants THEN Ok(<<"variant">> \o os, <<"visit_enum">>)
    ELSE IF DataVariant(os) # ""
    THEN custom(<<"invalid type: unit variant, expected " \o DataVariant(os)>>, <<"visit_enum">>)
    ELSE custom(<<"unknown variant">> \o os, <<"visit_enum">>)

StructuralTypes == {"identifier", "unit", "seq", "map", "struct", "tuple_struct",
                    "unit_struct", "tuple", "bytes", "byte_buf"}

\* a variant that answers the unit request
Value_unsupported_but_unit(shape) ==
    IF shape = "unit" THEN Ok(<<"unit">>, <<"visit_unit">>)
    ELSE unsupported_type(CASE shape = "tuple_struct" -> "tuple struct"
                            [] shape = "unit_struct" -> "unit struct"
                            [] OTHER -> shape, <<>>)

\* deserialize_identifier .. deserialize_byte_buf of Value: the name each passes
\* to Error::unsupported_type
Value_unsupported(shape) ==
    unsupported_type(CASE shape = "tuple_struct" -> "tuple struct"
                       [] shape = "unit_struct" -> "unit struct"
                       [] OTHER -> shape, <<>>)

Wrap(ctor, r) == IF r.tag = "Ok" THEN [r EXCEPT !.val = <<ctor>> \o r.val] ELSE r

RECURSIVE Value_deserialize(_, _)

\* a variant that takes the empty value for an absent one
Value_deserialize_option_empty_is_none(ty, os) ==
    IF os = <<>> THEN Ok(<<"None">>, <<"visit_none">>)
    ELSE AndThen("visit_some", Wrap("Some", Value_deserialize(Tail(ty), os)))

\* visitor.visit_some(self): the inner type deserializes from the same Value
Value_deserialize_option(ty, os) ==
    AndThen("visit_some", Wrap("Some", Value_deserialize(Tail(ty), os)))

\* visitor.visit_newtype_struct(self)
Value_deserialize_newtype_struct(ty, os) ==
    AndThen("visit_newtype_struct", Wrap("NewType", Value_deserialize(Tail(ty), os)))

\* T::deserialize(value): the request the type ty makes of the Value adapter
Value_deserialize(ty, os) ==
    LET h == Head(ty)
    IN CASE h \in IntTypes \cup FloatTypes -> convert_into_string_and_parse(h, os)
         [] h = "bool" -> Value_deserialize_bool(os)
         [] h \in {"char", "String", "any", "IgnoredAny"} -> Value_deserialize_any(h, os)
         [] h = "Option" -> Value_deserialize_option(ty, os)
         [] h = "NewType" -> Value_deserialize_newtype_struct(ty, os)
         [] h = "enum" -> Value_deserialize_enum(os)
         [] h \in StructuralTypes -> Value_unsupported(h)

----------------------------------------------------------------------------
(* The Key adapter (de/key.rs) *)

\* a variant that decodes the name lossily instead of failing
Key_deserialize_str_lossy(os) == Ok(os, <<"visit_str">>)

Key_deserialize_str(os) ==
    IF is_unicode(os) THEN Ok(os, <<"visit_str">>) ELSE invalid_unicode(os, <<>>)

Key_deserialize_string(os) ==
    IF is_unicode(os) THEN Ok(os, <<"visit_string">>) ELSE invalid_unicode(os, <<>>)

Key_deserialize_identifier(os) == Key_deserialize_str(os)

\* K::deserialize(key) for the key types the visitors ask for; every request
\* but str, string, identifier and newtype_struct is generated by
\* unsupported_types!
Key_deserialize(seed, os) ==
    CASE seed = "identifier" -> Key_deserialize_identifier(os)
      [] seed = "String" -> Key_deserialize_string(os)
      [] seed = "IgnoredAny" -> unsupported_type("ignored_any", <<>>)

----------------------------------------------------------------------------
(* Descriptors: the Deserialize implementations of the target types.       *)
(* shape is the request made of the top-level deserializer, visitor what   *)
(* the type's visitor does when it is handed the mapping.                  *)

Field(name, ty) == [name |-> name, ty |-> ty]

\* a derived record, as in the crate's tests
Record(fields, deny) ==
    [shape |-> "struct", visitor |-> "record", fields |-> fields, deny |-> deny,
     keyty |-> "identifier", valty |-> <<>>]

\* a map from String, and a self-describing type that asks for "any"
MapOf(shape, valty) ==
    [shape |-> shape, visitor |-> "map", fields |-> <<>>, deny |-> FALSE,
     keyty |-> "String", valty |-> valty]

\* serde's IgnoredAny, whose visit_map drains the mapping
IgnoredAny ==
    [shape |-> "ignored_any", visitor |-> "ignored", fields |-> <<>>, deny |-> FALSE,
     keyty |-> "IgnoredAny", valty |-> <<"IgnoredAny">>]

\* a type whose visitor has no visit_map: a derived enum, a derived
\* single-field wrapper, a scalar
NoMap(shape) ==
    [shape |-> shape, visitor |-> "none", fields |-> <<>>, deny |-> FALSE,
     keyty |-> "", valty |-> <<>>]

\* the derived field visitor's visit_str: the field's index, 0 for a field to
\* ignore, or the unknown-field error under deny_unknown_fields
Field_visit_str(d, text) ==
    IF \E i \in 1..Len(d.fields) : d.fields[i].name = text
    THEN [ok |-> TRUE, field |-> CHOOSE i \in 1..Len(d.fields) : d.fields[i].name = text,
          payload |-> <<>>]
    ELSE IF d.deny THEN [ok |-> FALSE, field |-> 0, payload |-> <<"unknown field">> \o text]
    ELSE [ok |-> TRUE, field |-> 0, payload |-> <<>>]

\* serde's missing_field: None for an Option, the error for any other type
missing_field(f) ==
    IF Head(f.ty) = "Option" THEN Ok(<<"None">>, <<"visit_none">>)
    ELSE custom(<<"missing field">> \o f.name, <<>>)

----------------------------------------------------------------------------
(* The conversion *)

NoResult == [tag |-> "None", rec |-> <<>>, kind |-> "", payload |-> <<>>]
Success(rec) == [tag |-> "Ok", rec |-> rec, kind |-> "", payload |-> <<>>]
Failure(e) == [tag |-> "Err", rec |-> <<>>, kind |-> e.kind, payload |-> e.payload]

NoValue == [some |-> FALSE, os |-> <<>>]
NoField == [field |-> 0, key |-> <<>>]
EmptySlots(d) == [i \in 1..Len(d.fields) |-> [set |-> FALSE, key |-> d.fields[i].name, val |-> <<>>]]

\* EnvDeserializer::from_iter over the mapped iterator
Engine(ps) ==
    /\ pairs' = ps
    /\ iter' = ps
    /\ pc' = "deserialize"
    /\ UNCHANGED <<entry, env, prefix, desc, truthy_falsy, pending, cur, slots,
                   pulled, calls, result>>

from_iter_os ==
    /\ pc = "call" /\ entry = "from_iter_os"
    /\ Engine(env)

from_iter ==
    /\ pc = "call" /\ entry = "from_iter"
    /\ Engine(env)

from_env ==
    /\ pc = "call" /\ entry = "from_env"
    /\ Engine(env)

\* a variant that strips every leading repetition of the prefix
RECURSIVE strip_all(_, _)
strip_all(s, p) ==
    IF p # <<>> /\ starts_with(s, p) THEN strip_all(SubSeq(s, Len(p) + 1, Len(s)), p) ELSE s
prefixed_entry_greedy(p, e) ==
    IF ~is_unicode(e.name) THEN [some |-> FALSE, pair |-> e]
    ELSE IF starts_with(e.name, p)
    THEN [some |-> TRUE, pair |-> [name |-> strip_all(e.name, p), value |-> e.value]]
    ELSE [some |-> FALSE, pair |-> e]

\* the closure given to filter_map
prefixed_entry(p, e) ==
    IF ~is_unicode(e.name) THEN [some |-> FALSE, pair |-> e]
    ELSE LET s == strip_prefix(e.name, p)
         IN IF s.some THEN [some |-> TRUE, pair |-> [name |-> s.rest, value |-> e.value]]
            ELSE [some |-> FALSE, pair |-> e]

RECURSIVE filter_map(_, _)
filter_map(p, es) ==
    IF es = <<>> THEN <<>>
    ELSE LET r == prefixed_entry(p, Head(es))
         IN (IF r.some THEN <<r.pair>> ELSE <<>>) \o filter_map(p, Tail(es))

from_env_prefixed ==
    /\ pc = "call" /\ entry = "from_env_prefixed"
    /\ Engine(filter_map(prefix, env))

\* a variant that also forwards the option request
ForwardedShapes_with_option ==
    {"any", "newtype_struct", "map", "struct", "enum", "ignored_any", "option"}

\* the requests EnvDeserializer forwards to deserialize_any
ForwardedShapes == {"any", "newtype_struct", "map", "struct", "enum", "ignored_any"}

\* the requests unsupported_types! rejects at the top level
UnsupportedShapes ==
    {"bool", "i8", "i16", "i32", "i64", "i128", "u8", "u16", "u32", "u64", "u128",
     "f32", "f64", "char", "str", "string", "bytes", "byte_buf", "option", "unit",
     "unit_struct", "seq", "tuple", "tuple_struct", "identifier"}

\* T::deserialize(&mut deserializer): the type's request of EnvDeserializer
EnvDeserializer_deserialize ==
    /\ pc = "deserialize"
    /\ IF desc.shape \in ForwardedShapes
       THEN /\ calls' = Append(calls, "visit_map")
            /\ IF desc.visitor = "none"
               THEN /\ result' = Failure(custom(<<"invalid type: map">>, <<>>))
                    /\ pc' = "done"
               ELSE /\ pc' = "ready"
                    /\ UNCHANGED result
       ELSE /\ result' = Failure(unsupported_type(desc.shape, <<>>))
            /\ pc' = "done"
            /\ UNCHANGED calls
    /\ UNCHANGED <<entry, env, prefix, desc, truthy_falsy, pairs, iter, pending,
                   cur, slots, pulled>>

\* a variant in which a pull also drops the later pairs of the same name
next_key_seed_deduplicating ==
    /\ pc = "ready"
    /\ IF iter = <<>>
       THEN /\ pc' = "end"
            /\ UNCHANGED <<iter, pending, cur, pulled, calls, result>>
       ELSE LET p == Head(iter)
                k == Key_deserialize(desc.keyty, p.name)
                f == IF desc.visitor = "record" /\ k.tag = "Ok"
                     THEN Field_visit_str(desc, k.val)
                     ELSE [ok |-> TRUE, field |-> 0, payload |-> <<>>]
                later(q) == q.name # p.name
            IN /\ iter' = SelectSeq(Tail(iter), later)
               /\ pulled' = Len(pairs) - Len(iter')
               /\ pending' = [some |-> TRUE, os |-> p.value]
               /\ calls' = calls \o k.vis
               /\ IF k.tag = "Err"
                  THEN /\ result' = Failure(k)
                       /\ pc' = "done"
                       /\ UNCHANGED cur
                  ELSE IF ~f.ok
                  THEN /\ result' = Failure(custom(f.payload, <<>>))
                       /\ pc' = "done"
                       /\ UNCHANGED cur
                  ELSE /\ cur' = [field |-> f.field, key |-> k.val]
                       /\ pc' = "held"
                       /\ UNCHANGED result
    /\ UNCHANGED <<entry, env, prefix, desc, truthy_falsy, pairs, slots>>

\* MapDeserializer::next_key_seed, called by the visitor's loop
next_key_seed ==
    /\ pc = "ready"
    /\ IF iter = <<>>
       THEN /\ pc' = "end"
            /\ UNCHANGED <<iter, pending, cur, pulled, calls, result>>
       ELSE LET p == Head(iter)
                k == Key_deserialize(desc.keyty, p.name)
                f == IF desc.visitor = "record" /\ k.tag = "Ok"
                     THEN Field_visit_str(desc, k.val)
                     ELSE [ok |-> TRUE, field |-> 0, payload |-> <<>>]
            IN /\ iter' = Tail(iter)
               /\ pulled' = pulled + 1
               /\ pending' = [some |-> TRUE, os |-> p.value]
               /\ calls' = calls \o k.vis
               /\ IF k.tag = "Err"
                  THEN /\ result' = Failure(k)
                       /\ pc' = "done"
                       /\ UNCHANGED cur
                  ELSE IF ~f.ok
                  THEN /\ result' = Failure(custom(f.payload, <<>>))
                       /\ pc' = "done"
                       /\ UNCHANGED cur
                  ELSE /\ cur' = [field |-> f.field, key |-> k.val]
                       /\ pc' = "held"
                       /\ UNCHANGED result
    /\ UNCHANGED <<entry, env, prefix, desc, truthy_falsy, pairs, slots>>

\* the type the visitor asks of the held value
ValueSeed ==
    IF desc.visitor = "record"
    THEN IF cur.field = 0 THEN <<"IgnoredAny">> ELSE desc.fields[cur.field].ty
    ELSE desc.valty

\* where the visitor stores the value: the field's local, or the map's entry
Store(v) ==
    IF desc.visitor = "record"
    THEN IF cur.field = 0 THEN slots
         ELSE [slots EXCEPT ![cur.field] = [set |-> TRUE, key |-> @.key, val |-> v]]
    ELSE IF \E i \in 1..Len(slots) : slots[i].key = cur.key
    THEN [i \in 1..Len(slots) |->
            IF slots[i].key = cur.key THEN [set |-> TRUE, key |-> cur.key, val |-> v]
            ELSE slots[i]]
    ELSE Append(slots, [set |-> TRUE, key |-> cur.key, val |-> v])

\* a variant in which a failed value extraction is skipped and the loop goes on
next_value_seed_skipping ==
    /\ pc = "held"
    /\ IF desc.visitor = "record" /\ cur.field # 0 /\ slots[cur.field].set
       THEN /\ result' = Failure(custom(<<"duplicate field">> \o cur.key, <<>>))
            /\ pc' = "done"
            /\ UNCHANGED <<pending, slots, calls>>
       ELSE LET v == Value_deserialize(ValueSeed, pending.os)
            IN /\ pending' = NoValue
               /\ calls' = calls \o v.vis
               /\ pc' = "ready"
               /\ UNCHANGED result
               /\ IF v.tag = "Err" THEN UNCHANGED slots ELSE slots' = Store(v.val)
    /\ UNCHANGED <<entry, env, prefix, desc, truthy_falsy, pairs, iter, cur, pulled>>

\* the visitor's arm for the resolved key: the duplicate test, then
\* MapDeserializer::next_value_seed on the held value
next_value_seed ==
    /\ pc = "held"
    /\ IF desc.visitor = "record" /\ cur.field # 0 /\ slots[cur.field].set
       THEN /\ result' = Failure(custom(<<"duplicate field">> \o cur.key, <<>>))
            /\ pc' = "done"
            /\ UNCHANGED <<pending, slots, calls>>
       ELSE LET v == Value_deserialize(ValueSeed, pending.os)
            IN /\ pending' = NoValue
               /\ calls' = calls \o v.vis
               /\ IF v.tag = "Err"
                  THEN /\ result' = Failure(v)
                       /\ pc' = "done"
                       /\ UNCHANGED slots
                  ELSE /\ slots' = Store(v.val)
                       /\ pc' = "ready"
                       /\ UNCHANGED result
    /\ UNCHANGED <<entry, env, prefix, desc, truthy_falsy, pairs, iter, cur, pulled>>

\* the first declared field, from index i on, that has no value and no default
RECURSIVE first_missing(_, _, _)
first_missing(d, s, i) ==
    IF i > Len(d.fields) THEN 0
    ELSE IF ~s[i].set /\ missing_field(d.fields[i]).tag = "Err" THEN i
    ELSE first_missing(d, s, i + 1)

\* what the visitor returns once next_key reports the mapping exhausted
visit_map_end ==
    /\ pc = "end"
    /\ pc' = "done"
    /\ IF desc.visitor = "record"
       THEN LET m == first_missing(desc, slots, 1)
            IN IF m # 0
               THEN /\ result' = Failure(missing_field(desc.fields[m]))
                    /\ calls' = calls \o [i \in 1..Cardinality({j \in 1..(m - 1) : ~slots[j].set})
                                            |-> "visit_none"]
               ELSE /\ result' = Success([i \in 1..Len(slots) |->
                                    IF slots[i].set THEN slots[i].val
                                    ELSE missing_field(desc.fields[i]).val])
                    /\ calls' = calls \o [i \in 1..Cardinality({j \in 1..Len(slots) : ~slots[j].set})
                                            |-> "visit_none"]
       ELSE IF desc.visitor = "map"
       THEN /\ result' = Success([i \in 1..Len(slots) |->
                                    <<"entry">> \o slots[i].key \o <<"=">> \o slots[i].val])
            /\ UNCHANGED calls
       ELSE /\ result' = Success(<< <<"IgnoredAny">> >>)
            /\ UNCHANGED calls
    /\ UNCHANGED <<entry, env, prefix, desc, truthy_falsy, pairs, iter, pending,
                   cur, slots, pulled>>

----------------------------------------------------------------------------
(* The explored inputs *)

char_to_uppercase(c) ==
    IF \E i \in 1..Len(LowerCase) : LowerCase[i] = c
    THEN UpperCase[CHOOSE i \in 1..Len(LowerCase) : LowerCase[i] = c]
    ELSE c

\* every casing of a token
RECURSIVE Casings(_)
Casings(tok) ==
    IF tok = <<>> THEN {<<>>}
    ELSE {<<c>> \o r : c \in {tok[1], char_to_uppercase(tok[1])}, r \in Casings(Tail(tok))}

BoolTokens == {<<"t", "r", "u", "e">>, <<"t">>, <<"y", "e", "s">>, <<"y">>, <<"o", "n">>, <<"1">>, <<"f", "a", "l", "s", "e">>, <<"f">>, <<"n", "o">>, <<"n">>, <<"o", "f", "f">>, <<"0">>}

BoolValues == UNION {Casings(tok) : tok \in BoolTokens} \cup
    {<<"2">>, <<"t", "r", "u">>, <<"t", "r", "u", "e", "e">>, <<" ", "t", "r", "u", "e">>, <<"t", "r", "u", "e", " ">>, <<"y", "e", "s", "s">>, <<"o">>, <<"1", "0">>, <<"0", "1">>, <<"t", "r", " ", "u", "e">>, <<"n", "o", "p", "e">>, <<"o", "f">>, <<"T", "1">>, <<"-", "1">>, <<"+", "1">>}

IntValues ==
    {<<"0">>, <<"0", "0">>, <<"0", "0", "7">>, <<"1", "2">>, <<"+", "1", "2">>, <<"-", "1", "2">>, <<"-", "0">>, <<"+", "0">>, <<"+">>, <<"-">>, <<"+", "-", "1">>, <<"-", "-", "1">>, <<"1", " ", "2">>, <<" ", "1", "2">>, <<"1", "2", " ">>, <<"1", "_", "0">>, <<"0", "x", "1", "F">>, <<"1", "2", "a">>, <<"a", "1">>, <<"2", "6", "x">>, <<"2", "5", "6", "x">>, <<"2", "5", "6", "0">>, <<"2", "5", "5">>, <<"2", "5", "6">>, <<"+", "2", "5", "5">>, <<"0", "0", "2", "5", "5">>, <<"6", "5", "5", "3", "5">>, <<"6", "5", "5", "3", "6">>, <<"+", "6", "5", "5", "3", "5">>, <<"0", "0", "6", "5", "5", "3", "5">>, <<"4", "2", "9", "4", "9", "6", "7", "2", "9", "5">>, <<"4", "2", "9", "4", "9", "6", "7", "2", "9", "6">>, <<"+", "4", "2", "9", "4", "9", "6", "7", "2", "9", "5">>, <<"0", "0", "4", "2", "9", "4", "9", "6", "7", "2", "9", "5">>, <<"1", "8", "4", "4", "6", "7", "4", "4", "0", "7", "3", "7", "0", "9", "5", "5", "1", "6", "1", "5">>, <<"1", "8", "4", "4", "6", "7", "4", "4", "0", "7", "3", "7", "0", "9", "5", "5", "1", "6", "1", "6">>, <<"+", "1", "8", "4", "4", "6", "7", "4", "4", "0", "7", "3", "7", "0", "9", "5", "5", "1", "6", "1", "5">>, <<"0", "0", "1", "8", "4", "4", "6", "7", "4", "4", "0", "7", "3", "7", "0", "9", "5", "5", "1", "6", "1", "5">>, <<"3", "4", "0", "2", "8", "2", "3", "6", "6", "9", "2", "0", "9", "3", "8", "4", "6", "3", "4", "6", "3", "3", "7", "4", "6", "0", "7", "4", "3", "1", "7", "6", "8", "2", "1", "1", "4", "5", "5">>, <<"3", "4", "0", "2", "8", "2", "3", "6", "6", "9", "2", "0", "9", "3", "8", "4", "6", "3", "4", "6", "3", "3", "7", "4", "6", "0", "7", "4", "3", "1", "7", "6", "8", "2", "1", "1", "4", "5", "6">>, <<"+", "3", "4", "0", "2", "8", "2", "3", "6", "6", "9", "2", "0", "9", "3", "8", "4", "6", "3", "4", "6", "3", "3", "7", "4", "6", "0", "7", "4", "3", "1", "7", "6", "8", "2", "1", "1", "4", "5", "5">>, <<"0", "0", "3", "4", "0", "2", "8", "2", "3", "6", "6", "9", "2", "0", "9", "3", "8", "4", "6", "3", "4", "6", "3", "3", "7", "4", "6", "0", "7", "4", "3", "1", "7", "6", "8", "2", "1", "1", "4", "5", "5">>, <<"1", "2", "7">>, <<"1", "2", "8">>, <<"+", "1", "2", "7">>, <<"0", "0", "1", "2", "7">>, <<"3", "2", "7", "6", "7">>, <<"3", "2", "7", "6", "8">>, <<"+", "3", "2", "7", "6", "7">>, <<"0", "0", "3", "2", "7", "6", "7">>, <<"2", "1", "4", "7", "4", "8", "3", "6", "4", "7">>, <<"2", "1", "4", "7", "4", "8", "3", "6", "4", "8">>, <<"+", "2", "1", "4", "7", "4", "8", "3", "6", "4", "7">>, <<"0", "0", "2", "1", "4", "7", "4", "8", "3", "6", "4", "7">>, <<"9", "2", "2", "3", "3", "7", "2", "0", "3", "6", "8", "5", "4", "7", "7", "5", "8", "0", "7">>, <<"9", "2", "2", "3", "3", "7", "2", "0", "3", "6", "8", "5", "4", "7", "7", "5", "8", "0", "8">>, <<"+", "9", "2", "2", "3", "3", "7", "2", "0", "3", "6", "8", "5", "4", "7", "7", "5", "8", "0", "7">>, <<"0", "0", "9", "2", "2", "3", "3", "7", "2", "0", "3", "6", "8", "5", "4", "7", "7", "5", "8", "0", "7">>, <<"1", "7", "0", "1", "4", "1", "1", "8", "3", "4", "6", "0", "4", "6", "9", "2", "3", "1", "7", "3", "1", "6", "8", "7", "3", "0", "3", "7", "1", "5", "8", "8", "4", "1", "0", "5", "7", "2", "7">>, <<"1", "7", "0", "1", "4", "1", "1", "8", "3", "4", "6", "0", "4", "6", "9", "2", "3", "1", "7", "3", "1", "6", "8", "7", "3", "0", "3", "7", "1", "5", "8", "8", "4", "1", "0", "5", "7", "2", "8">>, <<"+", "1", "7", "0", "1", "4", "1", "1", "8", "3", "4", "6", "0", "4", "6", "9", "2", "3", "1", "7", "3", "1", "6", "8", "7", "3", "0", "3", "7", "1", "5", "8", "8", "4", "1", "0", "5", "7", "2", "7">>, <<"0", "0", "1", "7", "0", "1", "4", "1", "1", "8", "3", "4", "6", "0", "4", "6", "9", "2", "3", "1", "7", "3", "1", "6", "8", "7", "3", "0", "3", "7", "1", "5", "8", "8", "4", "1", "0", "5", "7", "2", "7">>, <<"-", "1", "2", "8">>, <<"-", "1", "2", "9">>, <<"-", "0", "0", "1", "2", "8">>, <<"-", "3", "2", "7", "6", "8">>, <<"-", "3", "2", "7", "6", "9">>, <<"-", "0", "0", "3", "2", "7", "6", "8">>, <<"-", "2", "1", "4", "7", "4", "8", "3", "6", "4", "8">>, <<"-", "2", "1", "4", "7", "4", "8", "3", "6", "4", "9">>, <<"-", "0", "0", "2", "1", "4", "7", "4", "8", "3", "6", "4", "8">>, <<"-", "9", "2", "2", "3", "3", "7", "2", "0", "3", "6", "8", "5", "4", "7", "7", "5", "8", "0", "8">>, <<"-", "9", "2", "2", "3", "3", "7", "2", "0", "3", "6", "8", "5", "4", "7", "7", "5", "8", "0", "9">>, <<"-", "0", "0", "9", "2", "2", "3", "3", "7", "2", "0", "3", "6", "8", "5", "4", "7", "7", "5", "8", "0", "8">>, <<"-", "1", "7", "0", "1", "4", "1", "1", "8", "3", "4", "6", "0", "4", "6", "9", "2", "3", "1", "7", "3", "1", "6", "8", "7", "3", "0", "3", "7", "1", "5", "8", "8", "4", "1", "0", "5", "7", "2", "8">>, <<"-", "1", "7", "0", "1", "4", "1", "1", "8", "3", "4", "6", "0", "4", "6", "9", "2", "3", "1", "7", "3", "1", "6", "8", "7", "3", "0", "3", "7", "1", "5", "8", "8", "4", "1", "0", "5", "7", "2", "9">>, <<"-", "0", "0", "1", "7", "0", "1", "4", "1", "1", "8", "3", "4", "6", "0", "4", "6", "9", "2", "3", "1", "7", "3", "1", "6", "8", "7", "3", "0", "3", "7", "1", "5", "8", "8", "4", "1", "0", "5", "7", "2", "8">>, <<"-", "2", "5", "5">>, <<"-", "1">>, <<"9", "9", "9", "9", "9", "9", "9", "9", "9", "9", "9", "9", "9", "9", "9", "9", "9", "9", "9", "9", "9", "9", "9", "9", "9", "9", "9", "9", "9", "9", "9", "9", "9", "9", "9", "9", "9", "9", "9", "9">>, <<"-", "9", "9", "9", "9", "9", "9", "9", "9", "9", "9", "9", "9", "9", "9", "9", "9", "9", "9", "9", "9", "9", "9", "9", "9", "9", "9", "9", "9", "9", "9", "9", "9", "9", "9", "9", "9", "9", "9", "9", "9">>}

FloatValues ==
    {<<"1", ".", "5">>, <<"1", ".", "5", "0">>, <<"0", "1", ".", "5">>, <<"1", "5", "e", "-", "1">>, <<"0", ".", "1", "5", "e", "1">>, <<"-", "1", ".", "5">>, <<"+", "1", ".", "5">>, <<".", "5">>, <<"5", ".">>, <<".">>, <<"-", ".">>, <<"1", "e">>, <<"1", "e", "+">>, <<"1", "e", "5">>, <<"1", "E", "5">>, <<"1", "e", "-", "2">>, <<"1", "e", "+", "2">>, <<"i", "n", "f">>, <<"-", "i", "n", "f">>, <<"+", "i", "n", "f">>, <<"I", "n", "f", "i", "n", "i", "t", "y">>, <<"I", "N", "F">>, <<"i", "n", "f", "i", "n", "i", "t">>, <<"N", "a", "N">>, <<"n", "a", "n">>, <<"0", ".", "0">>, <<"-", "0", ".", "0">>, <<"0", "e", "0">>, <<"1", ".", "5", ".", "2">>, <<"e", "5">>, <<"1", "e", "5", ".", "0">>, <<"1", ".", "5", "f">>, <<"1", ",", "5">>, <<" ", "1", ".", "5">>, <<"1", ".", "5", " ">>, <<"1", " ", ".", "5">>, <<"0", "x", "1", "p", "3">>, <<"1", "2", "0">>, <<"1", ".", "2", "e", "1">>}

OtherValues ==
    {<<>>, <<"x">>, <<"x", "y">>, <<"l", "o", "r", "e", "m", " ", "i", "p", "s", "u", "m">>, <<InvalidByte>>, <<"a", InvalidByte>>, <<"1", "2", InvalidByte>>, <<InvalidByte, "1", "2">>, <<"t", "r", "u", "e", InvalidByte>>, <<"O", "N", InvalidByte>>, <<"O", "N">>, <<"O", "F", "F">>, <<"o", "n">>, <<"O", "n">>, <<"N", "E", "W", "_", "T", "Y", "P", "E", "_", "V", "A", "R", "I", "A", "N", "T">>, <<"S", "T", "R", "U", "C", "T", "_", "V", "A", "R", "I", "A", "N", "T">>, <<"G", "I", "B", "B", "E", "R", "I", "S", "H">>, <<"g", "i", "b", "b", "e", "r", "i", "s", "h">>, <<"O", "N", " ">>}

CoerceValues == BoolValues \cup IntValues \cup FloatValues \cup OtherValues

ScalarTypes == {<<t>> : t \in IntTypes \cup FloatTypes \cup {"bool", "char", "String", "enum"}}

CoerceTypes ==
    ScalarTypes \cup {<<t>> : t \in StructuralTypes} \cup
    {<<"Option">> \o t : t \in ScalarTypes} \cup
    {<<"NewType">> \o t : t \in ScalarTypes} \cup
    {<<"Option", "Option", "u8">>, <<"Option", "NewType", "u8">>, <<"NewType", "Option", "u8">>,
     <<"Option", "map">>, <<"NewType", "seq">>}

Pair(n, v) == [name |-> n, value |-> v]

PairNames == {<<"a">>, <<"b">>, <<"c">>, <<InvalidByte>>}
PairValues == {<<"1", "2">>, <<"7">>, <<InvalidByte>>}
PairSet == {Pair(n, v) : n \in PairNames, v \in PairValues}
SeqsUpTo(S, n) == UNION {[1..k -> S] : k \in 0..n}

PairTypes == {<<"u8">>, <<"Option", "u8">>}
PairRecords ==
    {Record(<<Field(<<"a">>, t1), Field(<<"b">>, t2)>>, deny) :
        t1 \in PairTypes, t2 \in PairTypes, deny \in BOOLEAN}

distinct_names(es) == \A i, j \in 1..Len(es) : es[i].name = es[j].name => i = j
all_unicode(es) == \A i \in 1..Len(es) : is_unicode(es[i].name) /\ is_unicode(es[i].value)

TopDescs ==
    {NoMap(s) : s \in UnsupportedShapes \cup {"enum", "newtype_struct"}} \cup
    {MapOf("map", <<"u8">>), MapOf("any", <<"any">>), IgnoredAny}

EnvNames == {<<"a">>, <<"b">>, <<"p", "_", "a">>, <<"p", "_", "b">>, <<"p", "_", "p", "_", "a">>, <<"p", "_">>, <<"a", "p", "_", "a">>, <<"p", "_", InvalidByte>>, <<InvalidByte>>}
EnvValues == {<<"1", "2">>, <<"x">>}
EnvSet == {Pair(n, v) : n \in EnvNames, v \in EnvValues}
Prefixes == {<<"p", "_">>, <<>>, <<"a">>}
EnvRecords ==
    {Record(<<Field(<<"a">>, <<"String">>), Field(<<"b">>, <<"Option", "u8">>)>>, FALSE),
     Record(<<Field(<<"a">>, <<"u8">>), Field(<<"_", "a">>, <<"Option", "String">>)>>, TRUE)}

Start(e, es, p, d, tf) ==
    /\ entry = e
    /\ env = es
    /\ prefix = p
    /\ desc = d
    /\ truthy_falsy = tf
    /\ pairs = <<>>
    /\ iter = <<>>
    /\ pending = NoValue
    /\ cur = NoField
    /\ slots = EmptySlots(d)
    /\ pulled = 0
    /\ calls = <<>>
    /\ pc = "call"
    /\ result = NoResult

\* a record with the one field a of type T, from the one pair (a, s)
InitCoerce ==
    \E ty \in CoerceTypes, s \in CoerceValues, tf \in BOOLEAN :
        /\ ~tf => ty[Len(ty)] = "bool"
        /\ Start("from_iter_os", <<Pair(<<"a">>, s)>>, <<>>, Record(<<Field(<<"a">>, ty)>>, FALSE), tf)

\* two-field records from up to MaxPairs pairs, through each entry point
InitPairs ==
    \E es \in SeqsUpTo(PairSet, MaxPairs), d \in PairRecords,
       e \in {"from_iter_os", "from_iter", "from_env"} :
        /\ e = "from_iter" => all_unicode(es) /\ Len(es) <= MaxEnv
        /\ e = "from_env" => distinct_names(es) /\ Len(es) <= MaxEnv
        /\ Start(e, es, <<>>, d, TRUE)

\* the other requests a type can make at the top level
InitTop ==
    \E es \in SeqsUpTo(PairSet, MaxTopPairs), d \in TopDescs :
        Start("from_iter_os", es, <<>>, d, TRUE)

\* from_env_prefixed over an environment of up to MaxEnv variables
InitPrefixed ==
    \E es \in SeqsUpTo(EnvSet, MaxEnv), p \in Prefixes, d \in EnvRecords :
        /\ distinct_names(es)
        /\ Start("from_env_prefixed", es, p, d, TRUE)

Init == InitCoerce \/ InitPairs \/ InitTop \/ InitPrefixed

Next ==
    \/ from_iter_os
    \/ from_iter
    \/ from_env
    \/ from_env_prefixed
    \/ EnvDeserializer_deserialize
    \/ next_key_seed
    \/ next_value_seed
    \/ visit_map_end

Spec == Init /\ [][Next]_vars

----------------------------------------------------------------------------
(* Properties *)

Done == pc = "done"

\* the conversion of a record with one field from the one pair naming it
OneField ==
    /\ desc.visitor = "record"
    /\ Len(desc.fields) = 1
    /\ Len(pairs) = 1
    /\ pairs[1].name = desc.fields[1].name
FieldTy == desc.fields[1].ty
RawValue == pairs[1].value

\* C1: for a record with one field of a numeric type T converted from value
\* s, a value that is not Unicode gives InvalidUnicode carrying s; otherwise
\* the field is T's standard parse of s itself, untrimmed, when that parse
\* succeeds, and the conversion fails with InvalidInteger (integer types) or
\* InvalidFloat (float types), carrying the parse's detail, when it fails.
C1_NumericCoercion ==
    (Done /\ OneField /\ Len(FieldTy) = 1 /\ FieldTy[1] \in IntTypes \cup FloatTypes) =>
        LET T == FieldTy[1]
            p == IF T \in IntTypes THEN parse_int(T, RawValue) ELSE parse_float(T, RawValue)
        IN IF ~is_unicode(RawValue)
           THEN result = [tag |-> "Err", rec |-> <<>>, kind |-> "InvalidUnicode",
                          payload |-> RawValue]
           ELSE IF p.ok
           THEN result = [tag |-> "Ok", rec |-> << <<T>> \o p.val >>, kind |-> "",
                          payload |-> <<>>]
           ELSE result = [tag |-> "Err", rec |-> <<>>,
                          kind |-> IF T \in IntTypes THEN "InvalidInteger" ELSE "InvalidFloat",
                          payload |-> <<p.detail>>]

\* a value with a blank in front fails to parse, and one with leading zeros
\* parses to its number
C1_Witness ==
    /\ Done /\ OneField /\ FieldTy = <<"u8">>
    /\ RawValue = <<" ", "1", "2">>
    /\ result.kind = "InvalidInteger"

\* C2: boolean coercion over the closed token sets, in any casing; every
\* other value fails with InvalidBool carrying the raw value as it was given.
C2_TrueTokens == IF truthy_falsy THEN {<<"t", "r", "u", "e">>, <<"t">>, <<"y", "e", "s">>, <<"y">>, <<"o", "n">>, <<"1">>} ELSE {<<"t", "r", "u", "e">>}
C2_FalseTokens == IF truthy_falsy THEN {<<"f", "a", "l", "s", "e">>, <<"f">>, <<"n", "o">>, <<"n">>, <<"o", "f", "f">>, <<"0">>} ELSE {<<"f", "a", "l", "s", "e">>}
C2_BooleanCoercion ==
    (Done /\ OneField /\ FieldTy = <<"bool">>) =>
        IF \E tok \in C2_TrueTokens : RawValue \in Casings(tok)
        THEN result = [tag |-> "Ok", rec |-> << <<"bool", "true">> >>, kind |-> "",
                       payload |-> <<>>]
        ELSE IF \E tok \in C2_FalseTokens : RawValue \in Casings(tok)
        THEN result = [tag |-> "Ok", rec |-> << <<"bool", "false">> >>, kind |-> "",
                       payload |-> <<>>]
        ELSE result = [tag |-> "Err", rec |-> <<>>, kind |-> "InvalidBool",
                       payload |-> RawValue]

\* a mixed-case extended token is true under the feature
C2_Witness ==
    /\ Done /\ OneField /\ FieldTy = <<"bool">>
    /\ truthy_falsy
    /\ RawValue = <<"o", "N">>
    /\ result.tag = "Ok"

HasPair(name) == \E i \in 1..Len(pairs) : pairs[i].name = name

\* C3: an optional field whose key is present takes the Some branch with the
\* inner value coerced from the raw value itself, the empty string included
\* (an inner coercion that fails fails the conversion; it never gives None),
\* and in a converted record an optional field is None exactly when no pair
\* of the input has its key.
C3_OptionalFields ==
    /\ (Done /\ OneField /\ Head(FieldTy) = "Option") =>
          LET inner == Value_deserialize(Tail(FieldTy), RawValue)
          IN IF inner.tag = "Ok"
             THEN result = [tag |-> "Ok", rec |-> << <<"Some">> \o inner.val >>,
                            kind |-> "", payload |-> <<>>]
             ELSE /\ result.tag = "Err"
                  /\ result.kind = inner.kind
                  /\ result.payload = inner.payload
    /\ (Done /\ desc.visitor = "record" /\ result.tag = "Ok") =>
          \A i \in 1..Len(desc.fields) :
              Head(desc.fields[i].ty) = "Option" =>
                  /\ result.rec[i] = <<"None">> <=> ~HasPair(desc.fields[i].name)
                  /\ HasPair(desc.fields[i].name) => Head(result.rec[i]) = "Some"

\* fields a and b of type Option<u8> from the pairs [("a", "12")]
C3_Witness ==
    /\ Done
    /\ desc.visitor = "record" /\ Len(desc.fields) = 2
    /\ desc.fields[1].ty = <<"Option", "u8">> /\ desc.fields[2].ty = <<"Option", "u8">>
    /\ pairs = <<Pair(<<"a">>, <<"1", "2">>)>>
    /\ result.tag = "Ok"
    /\ result.rec = << <<"Some", "u8", "1", "2">>, <<"None">> >>

C5_Raised ==
    IF pc = "ready" /\ iter # <<>>
    THEN LET k == Key_deserialize(desc.keyty, Head(iter).name)
         IN IF k.tag = "Err" THEN [some |-> TRUE, kind |-> k.kind, payload |-> k.payload]
            ELSE IF desc.visitor = "record" /\ ~Field_visit_str(desc, k.val).ok
            THEN [some |-> TRUE, kind |-> "Message",
                  payload |-> Field_visit_str(desc, k.val).payload]
            ELSE [some |-> FALSE, kind |-> "", payload |-> <<>>]
    ELSE IF pc = "held"
    THEN IF desc.visitor = "record" /\ cur.field # 0 /\ slots[cur.field].set
         THEN [some |-> TRUE, kind |-> "Message", payload |-> <<"duplicate field">> \o cur.key]
         ELSE LET v == Value_deserialize(ValueSeed, pending.os)
              IN IF v.tag = "Err" THEN [some |-> TRUE, kind |-> v.kind, payload |-> v.payload]
                 ELSE [some |-> FALSE, kind |-> "", payload |-> <<>>]
    ELSE [some |-> FALSE, kind |-> "", payload |-> <<>>]

\* C5: a step in which a key extraction, a value extraction or the descriptor
\* raises an error ends the conversion with exactly that error, kind and
\* payload, and no record; and once the conversion has an error nothing
\* more is pulled from the iterator and the error stays.
C5_FailFast ==
    [][/\ C5_Raised.some =>
            /\ pc' = "done"
            /\ result' = [tag |-> "Err", rec |-> <<>>, kind |-> C5_Raised.kind,
                          payload |-> C5_Raised.payload]
       /\ result.tag = "Err" => UNCHANGED <<result, iter, pulled, slots>>
       /\ result'.tag = "Err" => result'.rec = <<>> /\ pc' = "done"]_vars

\* a value error on the first pair, with pairs left in the iterator
C5_Witness ==
    /\ Done
    /\ result.tag = "Err" /\ result.kind = "InvalidUnicode"
    /\ pulled = 1 /\ Len(iter) = 2
    /\ pairs[1].name = <<"a">>

\* the types whose extraction reads the value as text
C6_TextTypes == IntTypes \cup FloatTypes \cup {"bool", "char", "String", "enum"}

\* C6 as stated: for every extraction that reads the value as text, the
\* boolean one included, a value that is not valid Unicode fails the
\* conversion with InvalidUnicode.
C6_Original ==
    (Done /\ OneField /\ Len(FieldTy) = 1 /\ FieldTy[1] \in C6_TextTypes
          /\ ~is_unicode(RawValue)) =>
        result.tag = "Err" /\ result.kind = "InvalidUnicode"

\* C6, amended: a value that is not valid Unicode fails the conversion with
\* InvalidUnicode, carrying the raw value, for each numeric type, char,
\* string and unit enum; for a boolean it fails with InvalidBool carrying
\* the raw value.
C6_InvalidUnicode ==
    (Done /\ OneField /\ Len(FieldTy) = 1 /\ FieldTy[1] \in C6_TextTypes
          /\ ~is_unicode(RawValue)) =>
        result = [tag |-> "Err", rec |-> <<>>,
                  kind |-> IF FieldTy[1] = "bool" THEN "InvalidBool" ELSE "InvalidUnicode",
                  payload |-> RawValue]

C6_Witness ==
    /\ Done /\ OneField /\ FieldTy = <<"bool">>
    /\ RawValue = <<"t", "r", "u", "e", InvalidByte>>
    /\ result.kind = "InvalidBool"

DeclaredNames == {desc.fields[i].name : i \in 1..Len(desc.fields)}

\* the conversion failed while a pair was being processed, not at the end
\* for a missing field
C7_RaisedOnPair ==
    /\ result.tag = "Err"
    /\ pulled >= 1
    /\ ~(result.kind = "Message" /\ Head(result.payload) = "missing field")

\* C7 as stated, for pairs with Unicode names: with unknown fields allowed
\* the engine raises no error because of an undeclared pair, so a conversion
\* that fails on a pair fails on a pair that names a declared field.
C7_Original ==
    (Done /\ desc.visitor = "record" /\ ~desc.deny /\ C7_RaisedOnPair
          /\ \A i \in 1..Len(pairs) : is_unicode(pairs[i].name)) =>
        pairs[pulled].name \in DeclaredNames

\* the entries from_env_prefixed keeps when only the start of the name is tested
C8_StartsWithPrefix(e) == starts_with(e.name, prefix)
C8_UnicodeStartsWithPrefix(e) == is_unicode(e.name) /\ starts_with(e.name, prefix)
C8_Stripped(es) ==
    [i \in 1..Len(es) |->
        [name |-> SubSeq(es[i].name, Len(prefix) + 1, Len(es[i].name)),
         value |-> es[i].value]]

\* C8 as stated: the engine is handed exactly the entries whose name starts
\* with the prefix, the prefix stripped once and the value unchanged.
C8_Original ==
    (entry = "from_env_prefixed" /\ pc # "call") =>
        pairs = C8_Stripped(SelectSeq(env, C8_StartsWithPrefix))

\* C8, amended: the engine is handed exactly the entries whose name is valid
\* Unicode and starts with the prefix, in the environment's order, each with
\* the prefix stripped once from the front and its value unchanged; every
\* other entry is excluded without an error.
C8_PrefixFiltering ==
    (entry = "from_env_prefixed" /\ pc # "call") =>
        pairs = C8_Stripped(SelectSeq(env, C8_UnicodeStartsWithPrefix))

\* entries a=x and p_a=12 under the prefix "p_" give a = "12"
C8_Witness ==
    /\ Done /\ entry = "from_env_prefixed"
    /\ prefix = <<"p", "_">>
    /\ env = <<Pair(<<"a">>, <<"x">>), Pair(<<"p", "_", "a">>, <<"1", "2">>)>>
    /\ desc.fields[1].ty = <<"String">>
    /\ result.tag = "Ok"
    /\ result.rec[1] = <<"String", "1", "2">>

\* the top-level requests C9 lists as rejected
C9_ListedRejected ==
    {"bool", "i8", "i16", "i32", "i64", "i128", "u8", "u16", "u32", "u64", "u128",
     "f32", "f64", "char", "str", "string", "option", "unit", "seq", "tuple",
     "tuple_struct", "newtype_struct", "bytes", "byte_buf", "identifier",
     "ignored_any", "any"}

C10_ShapeName(shape) ==
    CASE shape = "struct" -> "struct"
      [] shape = "map" -> "map"
      [] shape = "seq" -> "seq"
      [] shape = "tuple" -> "tuple"
      [] shape = "tuple_struct" -> "tuple struct"
      [] shape = "unit" -> "unit"
      [] shape = "unit_struct" -> "unit struct"
      [] shape = "bytes" -> "bytes"
      [] shape = "byte_buf" -> "byte_buf"

\* C10: whatever the value, a field whose type asks the Value adapter for a
\* record, map, sequence, tuple, tuple-wrapper, unit, unit struct or byte
\* blob fails the conversion with UnsupportedType naming that request, and
\* no visitor method is invoked for the value.
C10_StructuralRejected ==
    (Done /\ OneField /\ Len(FieldTy) = 1
          /\ FieldTy[1] \in {"struct", "map", "seq", "tuple", "tuple_struct", "unit",
                             "unit_struct", "bytes", "byte_buf"}) =>
        /\ result = [tag |-> "Err", rec |-> <<>>, kind |-> "UnsupportedType",
                     payload |-> <<C10_ShapeName(FieldTy[1])>>]
        /\ calls = <<"visit_map", "visit_str">>

\* a map field asked of a value that is not even valid Unicode
C10_Witness ==
    /\ Done /\ OneField /\ FieldTy = <<"map">>
    /\ RawValue = <<InvalidByte>>
    /\ result.kind = "UnsupportedType"
    /\ result.payload = <<"map">>

----------------------------------------------------------------------------
(* C11: the ignored/skip request on a held value *)

\* the visitor is about to skip the held value of an undeclared pair
C11_IgnoredRequest ==
    /\ pc = "held"
    /\ desc.visitor = "record"
    /\ cur.field = 0

\* C11 as stated: an ignored/skip request on a held value succeeds whatever
\* the value holds, non-Unicode included, and leaves the conversion of the
\* other fields as it was: the pull loop goes on, with no error and with the
\* fields stored so far unchanged.
C11_Original ==
    [][C11_IgnoredRequest =>
          (pc' = "ready" /\ result' = result /\ slots' = slots)]_vars

----------------------------------------------------------------------------
(* C12: the pull protocol of the Record Assembler *)

\* the pairs not pulled yet are the input pairs after the first `pulled`
C12_Order ==
    /\ pulled <= Len(pairs)
    /\ iter = SubSeq(pairs, pulled + 1, Len(pairs))

\* a field-pull with a pair left takes exactly the next input pair: its name
\* is the key handed to field resolution and its value is held pending
C12_KeyPull ==
    (pc = "ready" /\ iter # <<>>) =>
        /\ pulled' = pulled + 1
        /\ iter' = Tail(iter)
        /\ pending' = [some |-> TRUE, os |-> pairs[pulled'].value]
        /\ calls' = calls \o Key_deserialize(desc.keyty, pairs[pulled'].name).vis
        /\ pc' = "held" => cur'.key = pairs[pulled'].name
        /\ pc' \in {"held", "done"}

\* a value-pull hands the held value, the value of the pair just pulled, to
\* the requested coercion, and leaves nothing pending
C12_ValuePull ==
    (pc = "held" /\ pending' # pending) =>
        LET v == Value_deserialize(ValueSeed, pairs[pulled].value)
        IN /\ pending = [some |-> TRUE, os |-> pairs[pulled].value]
           /\ pending' = NoValue
           /\ iter' = iter /\ pulled' = pulled
           /\ calls' = calls \o v.vis
           /\ v.tag = "Ok" => pc' = "ready" /\ slots' = Store(v.val) /\ result' = result
           /\ v.tag = "Err" => pc' = "done" /\ result' = Failure(v)

\* a field-pull with no pair left reports the mapping exhausted, once every
\* input pair has been pulled once
C12_Exhausted ==
    (pc = "ready" /\ iter = <<>>) =>
        /\ pc' = "end"
        /\ pulled' = Len(pairs)
        /\ pending' = NoValue
        /\ result' = NoResult

\* a declared field that is not optional and got no value
C12_RequiredMissing ==
    /\ desc.visitor = "record"
    /\ \E i \in 1..Len(desc.fields) :
          ~slots[i].set /\ Head(desc.fields[i].ty) # "Option"

\* the exhausted mapping with a required field missing ends in the
\* descriptor's missing-field message
C12_MissingField ==
    (pc = "end" /\ C12_RequiredMissing) =>
        /\ result'.tag = "Err"
        /\ result'.kind = "Message"
        /\ Head(result'.payload) = "missing field"
        /\ \E i \in 1..Len(desc.fields) :
              /\ ~slots[i].set
              /\ result'.payload = <<"missing field">> \o desc.fields[i].name

\* C12: each field-pull advances the pair iterator by exactly one pair, hands
\* that pair's name to field resolution and holds its value; the value-pull
\* that follows delivers exactly that held value and leaves nothing pending.
\* So the k-th pull exposes the k-th input pair (input order, each pair at
\* most once, repeated keys neither merged nor dropped), the mapping is
\* reported exhausted after one pull per input pair, and a required field
\* still missing then gives the descriptor's missing-field Message.
C12_PullProtocol ==
    [][/\ C12_Order'
       /\ C12_KeyPull
       /\ C12_ValuePull
       /\ C12_Exhausted
       /\ C12_MissingField]_vars

\* the repeated undeclared key c is pulled twice, around b, and the required
\* field a is reported missing after the third pull
C12_Witness ==
    /\ Done
    /\ desc.visitor = "record" /\ ~desc.deny
    /\ desc.fields[1].ty = <<"u8">>
    /\ pairs = <<Pair(<<"c">>, <<"1", "2">>), Pair(<<"b">>, <<"7">>), Pair(<<"c">>, <<"7">>)>>
    /\ pulled = 3
    /\ slots[2].set
    /\ result.kind = "Message"
    /\ result.payload = <<"missing field">> \o <<"a">>

----------------------------------------------------------------------------
(* C13: names that are not valid Unicode *)

C13_UnicodeName(e) == is_unicode(e.name)

\* the target resolves each pulled name: a record to a field, a map to a key
C13_ResolvesNames == desc.visitor \in {"record", "map"}

\* from_iter_os and from_env: a pulled pair whose name is not valid Unicode
\* is the last pair pulled, and the conversion has failed on it with
\* InvalidUnicode carrying the name, its value still held
C13_Universal ==
    (entry \in {"from_iter_os", "from_env"} /\ C13_ResolvesNames) =>
        \A i \in 1..pulled :
            ~is_unicode(pairs[i].name) =>
                /\ i = pulled
                /\ Done
                /\ result.tag = "Err"
                /\ result.kind = "InvalidUnicode"
                /\ result.payload = pairs[i].name
                /\ pending = [some |-> TRUE, os |-> pairs[i].value]

\* from_env_prefixed: the engine gets what it would get from the environment
\* without the entries whose name is not valid Unicode, so every name it
\* pulls is valid Unicode
C13_Prefixed ==
    (entry = "from_env_prefixed" /\ pc # "call") =>
        /\ pairs = filter_map(prefix, SelectSeq(env, C13_UnicodeName))
        /\ \A i \in 1..Len(pairs) : is_unicode(pairs[i].name)
        /\ (Done /\ result.kind = "InvalidUnicode") => ~pending.some

\* C13: through from_iter_os and from_env a pulled pair whose name is not
\* valid Unicode fails field resolution, and so the conversion, with
\* InvalidUnicode, whether or not the name is declared and whether or not
\* unknown fields are allowed; from_env_prefixed drops such names before the
\* engine, so they never fail the prefixed conversion.
C13_NonUnicodeKeys == C13_Universal /\ C13_Prefixed

\* from_env, unknown fields allowed: a is stored, then the undeclared
\* non-Unicode name fails the conversion
C13_Witness ==
    /\ Done
    /\ entry = "from_env"
    /\ desc.visitor = "record" /\ ~desc.deny
    /\ pairs = <<Pair(<<"a">>, <<"1", "2">>), Pair(<<InvalidByte>>, <<"7">>)>>
    /\ slots[1].set
    /\ pulled = 2
    /\ result.kind = "InvalidUnicode"
    /\ result.payload = <<InvalidByte>>

====
